---- MODULE Spec2Model ----
(***************************************************************************)
(* Model of the etl_flow ingestion pipeline: the SQLite store managed by   *)
(* helper_functions.py (create_db, remove_db, insert_mock_data,            *)
(* truncate_db) and the load performed by etl_job.py (run_job and its      *)
(* stages, insert_to_db).                                                  *)
(*                                                                         *)
(* The DDL and the INSERT statements live in yaml/sql.yaml, which is not   *)
(* part of the sources at hand; the constraints they declare are taken     *)
(* from the persisted store layout of the specification (primary keys,     *)
(* foreign keys, IF NOT EXISTS creation).                                   *)
(***************************************************************************)
EXTENDS Integers, Sequences, FiniteSets, TLC

\* Largest number of rows a snapshot lists for one table.
MaxRows == 2
\* Largest n_rows handed to insert_mock_data.
MaxMock == 1
\* Creation timestamps of blobs range over 1..MaxTime.
MaxTime == 2
\* Longest path, in symbols, of a container URL.
MaxPath == 4

\* Identifier universes (uuid strings in the program).
SessionIds == {"s1"}
EventIds == {"e1", "e2"}

\* SQLite's compile-time default of PRAGMA foreign_keys on a new connection.
DefaultForeignKeys == FALSE

AllTables == {"sessions", "events", "event_parents"}
AllIndices == {"events_session_ts", "events_session_kind"}

SessionRows == [id : SessionIds]
EventRows == [id : EventIds, session_id : SessionIds]
\* An edge links a reply to the distinct event it answers.
EdgeRows ==
    {p \in [child_id : EventIds, parent_id : EventIds] : p.child_id # p.parent_id}

Range(f) == {f[i] : i \in DOMAIN f}
SeqsUpTo(S, n) == UNION {[1..k -> S] : k \in 0..n}

\* The content of a downloaded backup blob: table name -> list of row
\* objects. valid abstracts whether the document conforms to json/schema.json.
Snapshots ==
    [valid : BOOLEAN,
     sessions : SeqsUpTo(SessionRows, MaxRows),
     events : SeqsUpTo(EventRows, MaxRows),
     event_parents : SeqsUpTo(EdgeRows, MaxRows)]

NoSnapshot == [none |-> TRUE]

\* The store before the database file exists.
AbsentDb ==
    [exists |-> FALSE, journal_mode |-> "delete", tables |-> {}, indices |-> {},
     sessions |-> {}, events |-> {}, event_parents |-> {}]

\* PRAGMA synchronous of a fresh connection (FULL) and after
\* PRAGMA synchronous = NORMAL; the setting lasts as long as the connection.
SynchronousFull == 2
SynchronousNormal == 1
NoConn == [by |-> "none", foreign_keys |-> FALSE, closed |-> TRUE,
           synchronous |-> SynchronousFull]
\* A fresh sqlite3 connection opened by operation `by`.
OpenConn(by) == [by |-> by, foreign_keys |-> DefaultForeignKeys, closed |-> FALSE,
                 synchronous |-> SynchronousFull]
\* con.close()
close(con) == [con EXCEPT !.closed = TRUE]
NoCall == [op |-> "none", outcome |-> "none", stage |-> "none"]

\* Names of the objects of the storage container; list_blobs is asked for
\* those starting with "backup_".
BackupNames == {"backup_20240101T000000.json", "backup_20240102T000000.json"}
OtherNames == {"dbdump.json"}
BlobNames == BackupNames \cup OtherNames

Blobs == [name : BlobNames, creation_time : 1..MaxTime]
NoBlob == [name |-> "none", creation_time |-> 0]

\* What the container may enumerate: its blobs, each name once, in any order.
Listings ==
    {l \in SeqsUpTo(Blobs, Cardinality(BlobNames)) :
        \A i, j \in DOMAIN l : l[i].name = l[j].name => i = j}

\* Where a call of the storage service may raise.
Faults == {"none", "list_blobs", "download_blob", "readall"}

NoFetch == [outcome |-> "none", error |-> "none", selected |-> NoBlob,
            attempted |-> FALSE, staging |-> "none"]

\* A URL is a sequence of symbols: the delimiters ":", "/", "?" and words,
\* each word standing for a run of characters without a delimiter.
SchemeWords == {"https", "acct.example", "mycontainer", "blob"}
Words == SchemeWords \cup {"sig=abc"}

\* The URLs handed to parse_container_url: well-formed ones and ones that
\* lack the scheme, the colon, a slash, the host, the path or the query.
Urls ==
    {scheme \o colon \o slashes \o host \o path \o query :
        scheme \in {<<>>, <<"https">>},
        colon \in {<<>>, <<":">>},
        slashes \in {<<>>, <<"/">>, <<"/", "/">>},
        host \in {<<>>, <<"acct.example">>},
        path \in SeqsUpTo({"/", "mycontainer", "blob"}, MaxPath),
        query \in {<<>>, <<"?">>, <<"?", "sig=abc">>}}

\* The columns the "?" placeholders of each insert statement stand for, in
\* the order in which insert_mock_data passes its parameters.
InsertColumns ==
    [sessions |-> <<"id">>,
     events |-> <<"id", "ts", "session_id">>,
     event_parents |-> <<"child_id", "parent_id">>]

\* The values a field of a row object may hold.
FieldValues(field) ==
    CASE field = "ts" -> {"2024-01-01T00:00:00", "2024-01-01T00:10:00"}
      [] field = "session_id" -> {"s1", "s2"}
      [] OTHER -> {"e1", "e2", "e3", "e4"}

\* A row object of the snapshot document: its fields, each with its value,
\* in the order in which the document lists them.
RowObjects ==
    UNION {{[table |-> t, fields |-> f] :
               f \in {g \in [DOMAIN InsertColumns[t] ->
                               UNION {{<<c, v>> : v \in FieldValues(c)} :
                                         c \in {InsertColumns[t][i] :
                                                    i \in DOMAIN InsertColumns[t]}}] :
                          \A i, j \in DOMAIN g : g[i][1] = g[j][1] => i = j}} :
           t \in DOMAIN InsertColumns}

\* repeat_every is a sequence of symbols: runs of digits, whitespace (a
\* blank, a newline), unit words in several spellings and other words.
Numbers == {"5", "15"}
Whitespace == {" ", "\n"}
UnitWords == {"minutes", "Hour", "day"}
RepeatStrings ==
    {lead \o number \o blanks \o unit \o trail :
        lead \in {<<>>, <<" ">>},
        number \in {<<>>} \cup {<<n>> : n \in Numbers},
        blanks \in {<<>>, <<" ">>, <<" ", " ">>, <<"\n">>},
        unit \in {<<>>, <<"weeks">>} \cup {<<u>> : u \in UnitWords},
        trail \in {<<>>, <<"x">>, <<"\n">>}}

\* No call of the scheduling module has been made.
NoSchedCall == [op |-> "none", outcome |-> "none", contacted |-> FALSE,
                repeat_every |-> <<>>]

\* No backup has been uploaded (or the container is not tracked).
NoUpload == [none |-> TRUE]

NoRowObject == [table |-> "none", fields |-> <<>>]
NotBound == [outcome |-> "none"]

NoParse == [outcome |-> "none", account_url |-> <<>>, container_name |-> <<>>,
            sas |-> <<>>]

VARIABLES
    db,         \* committed content of the database file
    pc,         \* position of run_job: "idle", a stage reached, or "done"
    snapshot,   \* content of the staged JSON file of the current run
    dbBefore,   \* db when the last operation was called
    lastCall,   \* the last operation called, its outcome and failing stage
    lastConn,   \* the connection the last operation (or stage) opened
    stages,     \* stages of run_job executed in the current run
    insertLog,  \* table of every INSERT executed in the current run
    listing,    \* the blobs of the container, as list_blobs enumerates them
    fetch,      \* outcome of the last download_latest_json and its temp file
    url,        \* the container URL handed to parse_container_url
    parsed,     \* what parse_container_url made of it
    rowObject,  \* a row object handed to the insert statement
    stored,     \* the row the statement stored for it
    uploaded,   \* the backup to_storage_account uploaded last, where tracked
    tasks,      \* the tasks registered in the root folder of the scheduler
    schedCall,  \* the last call of schedule_job or remove_scheduled_job
    lastSuccess \* the last of these calls that returned without exception

vars == <<db, pc, snapshot, dbBefore, lastCall, lastConn, stages, insertLog,
          listing, fetch, url, parsed, rowObject, stored, uploaded,
          tasks, schedCall, lastSuccess>>

\* The variables of the store, of a run and of the container.
storeVars == <<db, pc, snapshot, dbBefore, lastCall, lastConn, stages,
               insertLog, listing, fetch>>
StoreInit ==
    /\ db = AbsentDb
    /\ pc = "idle"
    /\ snapshot = NoSnapshot
    /\ dbBefore = AbsentDb
    /\ lastCall = NoCall
    /\ lastConn = NoConn
    /\ stages = <<>>
    /\ insertLog = <<>>
    /\ listing = <<>>
    /\ fetch = NoFetch

\* The variables of the helpers that do not touch the store.
urlVars == <<url, parsed>>
bindVars == <<rowObject, stored>>
schedVars == <<tasks, schedCall, lastSuccess>>
pureVars == <<urlVars, bindVars, schedVars>>
UrlInit == url = <<>> /\ parsed = NoParse
BindInit == rowObject = NoRowObject /\ stored = NotBound
SchedInit == tasks = {} /\ schedCall = NoSchedCall /\ lastSuccess = "none"
PureInit ==
    /\ UrlInit
    /\ BindInit
    /\ SchedInit
    /\ uploaded = NoUpload

Rows(d) == [sessions |-> d.sessions, events |-> d.events,
            event_parents |-> d.event_parents]

Ids(rows) == {r.id : r \in rows}

\* sqlite3.connect(db_path) creates the (empty) file when it is missing.
connect(d) == [d EXCEPT !.exists = TRUE]

----------------------------------------------------------------------------
\* Constraints declared by the schema.

PrimaryKeyOk(d, table, row) ==
    CASE table = "sessions" -> row.id \notin Ids(d.sessions)
      [] table = "events" -> row.id \notin Ids(d.events)
      [] table = "event_parents" -> row \notin d.event_parents

ForeignKeyOk(d, table, row) ==
    CASE table = "sessions" -> TRUE
      [] table = "events" -> row.session_id \in Ids(d.sessions)
      [] table = "event_parents" ->
            row.child_id \in Ids(d.events) /\ row.parent_id \in Ids(d.events)

\* Faulty variant: a row whose key the table already holds is accepted.
ExecuteOk_without_key(d, table, row, fk) ==
    /\ table \in d.tables
    /\ fk => ForeignKeyOk(d, table, row)

\* One con.execute(insert_statement, ...) on a connection whose foreign-key
\* enforcement is fk.
ExecuteOk(d, table, row, fk) ==
    /\ table \in d.tables
    /\ PrimaryKeyOk(d, table, row)
    /\ fk => ForeignKeyOk(d, table, row)

AddRow(d, table, row) == [d EXCEPT ![table] = @ \cup {row}]

\* for row in rows: con.execute(...)  -- stops at the first row that raises.
\* n counts the statements that executed.
RECURSIVE ExecuteRows(_, _, _, _, _)
ExecuteRows(d, table, rows, fk, n) ==
    IF rows = <<>> THEN [ok |-> TRUE, db |-> d, n |-> n]
    ELSE IF ~ExecuteOk(d, table, Head(rows), fk) THEN [ok |-> FALSE, db |-> d, n |-> n]
    ELSE ExecuteRows(AddRow(d, table, Head(rows)), table, Tail(rows), fk, n + 1)

\* Faulty variant: the except clause does not roll back, and closing the
\* connection keeps the rows executed before the failure.
insert_to_db_no_rollback(d, snap, table) ==
    LET con == OpenConn("insert_to_db")
        file == connect(d)
        r == ExecuteRows(file, table, snap[table], con.foreign_keys, 0)
    IN [ok |-> r.ok, db |-> r.db, n |-> r.n, con |-> close(con)]

\* insert_to_db: connect, execute every row of the table, commit; on any
\* exception roll back, so the file keeps what it held at connect.
insert_to_db(d, snap, table) ==
    LET con == OpenConn("insert_to_db")
        file == connect(d)
        r == ExecuteRows(file, table, snap[table], con.foreign_keys, 0)
    IN [ok |-> r.ok, db |-> IF r.ok THEN r.db ELSE file, n |-> r.n, con |-> close(con)]

\* Faulty variant: the ValidationError is swallowed instead of re-raised.
validate_json_string_swallows(snap) == TRUE

\* jsonschema.validate(instance=data, schema=schema): TRUE when it returns,
\* FALSE when it (or json.loads) raises.
validate_json_string(snap) == snap.valid

\* Faulty variant: events are handed to insert_to_db before sessions.
LoadOrder_events_first == <<"events", "sessions", "event_parents">>

\* The tables in the order run_job hands them to insert_to_db.
LoadOrder == <<"sessions", "events", "event_parents">>

\* CREATE TABLE / CREATE INDEX IF NOT EXISTS of schema_sql.
ApplySchema(d) ==
    [d EXCEPT !.tables = @ \cup AllTables, !.indices = @ \cup AllIndices]

\* DELETE FROM table; on a connection that never switched foreign keys on:
\* no referential check and no cascade takes place.
DeleteAll(d, table) == [d EXCEPT ![table] = {}]

\* Faulty variant: the parents are cleared before their children.
TruncateOrder_sessions_first == <<"sessions", "events", "event_parents">>

\* The DELETE FROM statements of truncate_db, in the order of the code.
TruncateOrder == <<"event_parents", "events", "sessions">>

\* The store after DELETE FROM each table of `order`, in turn.
RECURSIVE DeleteTables(_, _)
DeleteTables(d, order) ==
    IF order = <<>> THEN d
    ELSE DeleteTables(DeleteAll(d, Head(order)), Tail(order))

----------------------------------------------------------------------------
Init ==
    /\ db = AbsentDb
    /\ pc = "idle"
    /\ snapshot = NoSnapshot
    /\ dbBefore = AbsentDb
    /\ lastCall = NoCall
    /\ lastConn = NoConn
    /\ stages = <<>>
    /\ insertLog = <<>>
    /\ listing = <<>>
    /\ fetch = NoFetch
    /\ PureInit

\* No run_job is in progress: an operation may be called.
Idle == pc \in {"idle", "done"}

\* Bookkeeping common to the store-manager operations: the operation has
\* returned or raised, as `call` says, having used connection `con`.
Returned(call, con) ==
    /\ pc' = "idle"
    /\ snapshot' = NoSnapshot
    /\ dbBefore' = db
    /\ lastCall' = call
    /\ lastConn' = con
    /\ stages' = <<>>
    /\ insertLog' = <<>>
    /\ fetch' = NoFetch
    /\ UNCHANGED <<listing, pureVars>>

\* An operation that leaves the container alone.
Called(op, outcome, con) ==
    /\ Returned([op |-> op, outcome |-> outcome, stage |-> "none"], con)
    /\ UNCHANGED uploaded

\* The same for an operation whose argument the properties refer to.
CalledWith(op, arg, outcome, con) ==
    /\ Returned([op |-> op, outcome |-> outcome, stage |-> "none", arg |-> arg], con)
    /\ UNCHANGED uploaded

\* Faulty variant: os.remove is called without the os.path.exists test.
remove_db_unchecked ==
    /\ Idle
    /\ db' = IF db.exists THEN AbsentDb ELSE db
    /\ Called("remove_db", IF db.exists THEN "ok" ELSE "error", NoConn)

\* if os.path.exists(db_path): os.remove(db_path)
remove_db ==
    /\ Idle
    /\ db' = IF db.exists THEN AbsentDb ELSE db
    /\ Called("remove_db", "ok", NoConn)

\* Faulty variant: the schema is applied to a fresh file, dropping what the
\* store held.
create_db_recreates(ensure_wal) ==
    /\ Idle
    /\ LET con == [OpenConn("create_db") EXCEPT !.foreign_keys = TRUE]
           file == connect(AbsentDb)
           wal == IF ensure_wal THEN [file EXCEPT !.journal_mode = "wal"] ELSE file
       IN /\ db' = ApplySchema(wal)
          /\ CalledWith("create_db", ensure_wal, "ok", close(con))

\* Faulty variant: the journal_mode and synchronous pragmas are not executed.
create_db_without_wal(ensure_wal) ==
    /\ Idle
    /\ LET con == [OpenConn("create_db") EXCEPT !.foreign_keys = TRUE]
           file == connect(db)
       IN /\ db' = ApplySchema(file)
          /\ CalledWith("create_db", ensure_wal, "ok", close(con))

create_db(ensure_wal) ==
    /\ Idle
    /\ LET fk == [OpenConn("create_db") EXCEPT !.foreign_keys = TRUE]
           con == IF ensure_wal THEN [fk EXCEPT !.synchronous = SynchronousNormal]
                  ELSE fk
           file == connect(db)
           wal == IF ensure_wal THEN [file EXCEPT !.journal_mode = "wal"] ELSE file
       IN /\ db' = ApplySchema(wal)
          /\ CalledWith("create_db", ensure_wal, "ok", close(con))

\* Faulty variant: the DELETE FROM sessions is missing.
truncate_db_keeps_sessions ==
    /\ Idle
    /\ LET con == OpenConn("truncate_db")
           file == connect(db)
       IN IF AllTables \subseteq file.tables
          THEN /\ db' = DeleteTables(file, SubSeq(TruncateOrder, 1, 2))
               /\ CalledWith("truncate_db", SubSeq(TruncateOrder, 1, 2), "ok", close(con))
          ELSE /\ db' = file
               /\ CalledWith("truncate_db", <<>>, "error", close(con))

\* truncate_db; the argument recorded is the sequence of DELETE statements
\* it executed.
truncate_db ==
    /\ Idle
    /\ LET con == OpenConn("truncate_db")
           file == connect(db)
       IN IF AllTables \subseteq file.tables
          THEN /\ db' = DeleteTables(file, TruncateOrder)
               /\ CalledWith("truncate_db", TruncateOrder, "ok", close(con))
          ELSE /\ db' = file
               /\ CalledWith("truncate_db", <<>>, "error", close(con))

\* dump_json: SELECT * FROM each of the three tables; a missing table raises.
dump_json_ok(d) == AllTables \subseteq d.tables

Injective(f) == \A i, j \in DOMAIN f : f[i] = f[j] => i = j

\* Identifiers a new uuid4 may take: those of the pool the store does not
\* mention.
FreshSessionIdsOf(pool, d) ==
    pool \ (Ids(d.sessions) \cup {e.session_id : e \in d.events})
FreshEventIdsOf(pool, d) ==
    pool \ (Ids(d.events) \cup {p.child_id : p \in d.event_parents}
                          \cup {p.parent_id : p \in d.event_parents})
FreshSessionIds(d) == FreshSessionIdsOf(SessionIds, d)
FreshEventIds(d) == FreshEventIdsOf(EventIds, d)

\* Faulty variant: the assistant reply of a session is not inserted.
insert_mock_data_from_no_reply(n_rows, sessionPool, eventPool) ==
    /\ Idle
    /\ LET con == OpenConn("insert_mock_data")
           file == connect(db)
       IN IF n_rows > 0 /\ ~(AllTables \subseteq file.tables)
          THEN /\ db' = file
               /\ CalledWith("insert_mock_data", n_rows, "error", close(con))
          ELSE \E sid \in [1..n_rows -> FreshSessionIdsOf(sessionPool, file)],
                  e_user \in [1..n_rows -> FreshEventIdsOf(eventPool, file)],
                  e_assistant \in [1..n_rows -> FreshEventIdsOf(eventPool, file)] :
                 /\ Injective(sid) /\ Injective(e_user) /\ Injective(e_assistant)
                 /\ \A i, j \in 1..n_rows : e_user[i] # e_assistant[j]
                 /\ db' = [file EXCEPT
                              !.sessions = @ \cup {[id |-> sid[i]] : i \in 1..n_rows},
                              !.events = @ \cup
                                  {[id |-> e_user[i], session_id |-> sid[i]] : i \in 1..n_rows},
                              !.event_parents = @ \cup
                                  {[child_id |-> e_assistant[i], parent_id |-> e_user[i]] :
                                      i \in 1..n_rows}]
                 /\ CalledWith("insert_mock_data", n_rows, "ok", close(con))

\* insert_mock_data with its uuid4 values drawn from the given pools: n_rows
\* sessions, then for each session a user prompt, an assistant reply and the
\* edge from the reply to the prompt; one commit at the end.
insert_mock_data_from(n_rows, sessionPool, eventPool) ==
    /\ Idle
    /\ LET con == OpenConn("insert_mock_data")
           file == connect(db)
       IN IF n_rows > 0 /\ ~(AllTables \subseteq file.tables)
          THEN /\ db' = file
               /\ CalledWith("insert_mock_data", n_rows, "error", close(con))
          ELSE \E sid \in [1..n_rows -> FreshSessionIdsOf(sessionPool, file)],
                  e_user \in [1..n_rows -> FreshEventIdsOf(eventPool, file)],
                  e_assistant \in [1..n_rows -> FreshEventIdsOf(eventPool, file)] :
                 /\ Injective(sid) /\ Injective(e_user) /\ Injective(e_assistant)
                 /\ \A i, j \in 1..n_rows : e_user[i] # e_assistant[j]
                 /\ db' = [file EXCEPT
                              !.sessions = @ \cup {[id |-> sid[i]] : i \in 1..n_rows},
                              !.events = @ \cup
                                  {[id |-> e_user[i], session_id |-> sid[i]] : i \in 1..n_rows}
                                  \cup
                                  {[id |-> e_assistant[i], session_id |-> sid[i]] : i \in 1..n_rows},
                              !.event_parents = @ \cup
                                  {[child_id |-> e_assistant[i], parent_id |-> e_user[i]] :
                                      i \in 1..n_rows}]
                 /\ CalledWith("insert_mock_data", n_rows, "ok", close(con))

insert_mock_data(n_rows) == insert_mock_data_from(n_rows, SessionIds, EventIds)

\* Whether the dumped document satisfies json/schema.json.
DumpIsValid == TRUE

\* Faulty variant: the event_parents table is dumped without its rows.
dump_json_without_edges(d) ==
    {[valid |-> DumpIsValid, sessions |-> s, events |-> e, event_parents |-> <<>>] :
        s \in {f \in [1..Cardinality(d.sessions) -> d.sessions] : Injective(f)},
        e \in {f \in [1..Cardinality(d.events) -> d.events] : Injective(f)}}

\* dump_json: the document with every row of the three tables, the rows of
\* a table in the order SELECT * returns them, which the model leaves open.
dump_json(d) ==
    {[valid |-> DumpIsValid, sessions |-> s, events |-> e, event_parents |-> p] :
        s \in {f \in [1..Cardinality(d.sessions) -> d.sessions] : Injective(f)},
        e \in {f \in [1..Cardinality(d.events) -> d.events] : Injective(f)},
        p \in {f \in [1..Cardinality(d.event_parents) -> d.event_parents] :
                 Injective(f)}}

\* to_storage_account: con = sqlite3.connect(...) and dump_json(con) come
\* before the try; configuration, container client and upload are inside
\* it, and its finally clause removes the dump and closes the connection.
\* The storage service is the environment: the upload succeeds or raises.
\* With `tracked` the uploaded backup, and the rows it was dumped from, are
\* kept as the container's latest blob.
to_storage_account_to(tracked) ==
    /\ Idle
    /\ LET con == OpenConn("to_storage_account")
           file == connect(db)
           call(outcome) == [op |-> "to_storage_account", outcome |-> outcome,
                             stage |-> "none"]
       IN /\ db' = file
          /\ IF ~ dump_json_ok(file)
             THEN Returned(call("error"), con) /\ UNCHANGED uploaded
             ELSE \E dump \in dump_json(file) :
                     \/ /\ Returned(call("ok"), close(con))
                        /\ uploaded' = IF tracked
                                       THEN [snapshot |-> dump, rows |-> Rows(file)]
                                       ELSE uploaded
                     \/ /\ Returned(call("error"), close(con))
                        /\ UNCHANGED uploaded

\* In the whole-program specification the container is the environment.
to_storage_account == to_storage_account_to(FALSE)

----------------------------------------------------------------------------
\* download_latest_json.

name_starts_with(name, prefix) == prefix = "backup_" /\ name \in BackupNames

\* container_client.list_blobs(name_starts_with=prefix)
list_blobs(lst, prefix) ==
    SelectSeq(lst, LAMBDA b : name_starts_with(b.name, prefix))

\* max(blobs, key=lambda b: b.creation_time, default=None): the first blob
\* of the enumeration that no other exceeds; best is the maximum so far.
RECURSIVE MaxByCreationTime(_, _)
MaxByCreationTime(blobs, best) ==
    IF blobs = <<>> THEN best
    ELSE MaxByCreationTime(Tail(blobs),
            IF best = NoBlob \/ Head(blobs).creation_time > best.creation_time
            THEN Head(blobs) ELSE best)

\* Faulty variant: the listing is not narrowed to the prefix.
FindLatest_unfiltered(lst) == MaxByCreationTime(lst, NoBlob)

FindLatest(lst) == MaxByCreationTime(list_blobs(lst, "backup_"), NoBlob)

\* The rest of download_latest_json once latest_blob is known:
\* latest_blob.name (AttributeError on None), download_blob(), then the
\* NamedTemporaryFile(delete=False) is created and only then readall() runs.
FetchResult(latest, fault) ==
    IF fault = "list_blobs"
    THEN [outcome |-> "error", error |-> "ServiceError", selected |-> NoBlob,
          attempted |-> FALSE, staging |-> "none"]
    ELSE IF latest = NoBlob
    THEN [outcome |-> "error", error |-> "AttributeError", selected |-> NoBlob,
          attempted |-> FALSE, staging |-> "none"]
    ELSE IF fault = "download_blob"
    THEN [outcome |-> "error", error |-> "ServiceError", selected |-> latest,
          attempted |-> TRUE, staging |-> "none"]
    ELSE IF fault = "readall"
    THEN [outcome |-> "error", error |-> "ServiceError", selected |-> latest,
          attempted |-> TRUE, staging |-> "empty"]
    ELSE [outcome |-> "ok", error |-> "none", selected |-> latest,
          attempted |-> TRUE, staging |-> "complete"]

download_latest_json(lst, fault) == FetchResult(FindLatest(lst), fault)

\* The blob run_job finds when the container holds a backup.
NewestBackup == [name |-> "backup_20240102T000000.json", creation_time |-> MaxTime]

----------------------------------------------------------------------------
\* run_job, one action per stage; an exception in a stage ends the run.

Raise(stage) ==
    /\ pc' = "done"
    /\ lastCall' = [op |-> "run_job", outcome |-> "error", stage |-> stage]

Running == [op |-> "run_job", outcome |-> "running", stage |-> "none"]

\* sql_statements = load_yaml("sql.yaml")["sql_statements"]
run_job_load_yaml ==
    /\ Idle
    /\ stages' = <<"load_yaml">>
    /\ insertLog' = <<>>
    /\ dbBefore' = db
    /\ snapshot' = NoSnapshot
    /\ lastConn' = NoConn
    /\ fetch' = NoFetch
    /\ UNCHANGED <<db, listing, pureVars, uploaded>>
    /\ \E ok \in BOOLEAN :
          IF ok THEN pc' = "sql_loaded" /\ lastCall' = Running
          ELSE Raise("load_yaml")

\* container_client = connect_to_storage_account()
run_job_connect ==
    /\ pc = "sql_loaded"
    /\ stages' = Append(stages, "connect")
    /\ UNCHANGED <<db, snapshot, dbBefore, lastConn, insertLog, listing, fetch, pureVars, uploaded>>
    /\ \E ok \in BOOLEAN :
          IF ok THEN pc' = "connected" /\ UNCHANGED lastCall
          ELSE Raise("connect")

\* json_file_path = download_latest_json(container_client), for a container
\* whose latest backup is one of `latests` and holds one of `contents`.
run_job_download_of(latests, contents) ==
    /\ pc = "connected"
    /\ stages' = Append(stages, "download")
    /\ UNCHANGED <<db, dbBefore, lastConn, insertLog, listing, pureVars, uploaded>>
    /\ \E latest \in latests, fault \in Faults :
          /\ fetch' = FetchResult(latest, fault)
          /\ IF fetch'.outcome = "ok"
             THEN \E s \in contents :
                     /\ snapshot' = s
                     /\ pc' = "downloaded"
                     /\ UNCHANGED lastCall
             ELSE /\ UNCHANGED snapshot
                  /\ Raise("download")

\* Here the container is the environment: whether a blob matches, whether
\* the service fails and what the blob holds are chosen freely.
run_job_download == run_job_download_of({NoBlob, NewestBackup}, Snapshots)

\* Here the container holds what to_storage_account uploaded last.
run_job_download_uploaded ==
    IF uploaded = NoUpload
    THEN run_job_download_of({NoBlob}, {})
    ELSE run_job_download_of({NewestBackup}, {uploaded.snapshot})

\* Faulty variant: the validation opens a connection to the store.
run_job_validate_connects ==
    /\ pc = "downloaded"
    /\ stages' = Append(stages, "validate")
    /\ db' = connect(db)
    /\ lastConn' = close(OpenConn("validate_json_string"))
    /\ UNCHANGED <<snapshot, dbBefore, insertLog, listing, fetch, pureVars, uploaded>>
    /\ IF validate_json_string(snapshot)
       THEN pc' = "validated" /\ UNCHANGED lastCall
       ELSE Raise("validate")

\* validation_result = validate_json_string(json_file_path)
run_job_validate ==
    /\ pc = "downloaded"
    /\ stages' = Append(stages, "validate")
    /\ UNCHANGED <<db, snapshot, dbBefore, lastConn, insertLog, listing, fetch, pureVars, uploaded>>
    /\ IF validate_json_string(snapshot)
       THEN pc' = "validated" /\ UNCHANGED lastCall
       ELSE Raise("validate")

Repeat(x, n) == [i \in 1..n |-> x]

PcBefore == <<"validated", "inserted_1", "inserted_2">>
PcAfter == <<"inserted_1", "inserted_2", "done">>

\* The k-th insert_to_db call of run_job.
run_job_insert ==
    \E k \in 1..3 :
       /\ pc = PcBefore[k]
       /\ LET table == LoadOrder[k]
              r == insert_to_db(db, snapshot, table)
          IN /\ db' = r.db
             /\ lastConn' = r.con
             /\ stages' = Append(stages, table)
             /\ insertLog' = insertLog \o Repeat(table, r.n)
             /\ UNCHANGED <<snapshot, dbBefore, listing, fetch, pureVars, uploaded>>
             /\ IF ~r.ok THEN Raise(table)
                ELSE /\ pc' = PcAfter[k]
                     /\ lastCall' = IF k = 3
                                     THEN [op |-> "run_job", outcome |-> "ok",
                                           stage |-> "none"]
                                     ELSE lastCall

Next ==
    \/ remove_db
    \/ \E ensure_wal \in BOOLEAN : create_db(ensure_wal)
    \/ truncate_db
    \/ \E n_rows \in 0..MaxMock : insert_mock_data(n_rows)
    \/ to_storage_account
    \/ run_job_load_yaml
    \/ run_job_connect
    \/ run_job_download
    \/ run_job_validate
    \/ run_job_insert

Spec == Init /\ [][Next]_vars

----------------------------------------------------------------------------
\* The store as the tests drive it: create_db, insert_mock_data with several
\* sessions, the deletion of one event on a connection with foreign keys
\* on, truncate_db, remove_db, and run_job on a freshly initialized store.

MockSessionIds == {"s1", "s2"}
MockEventIds == {"e1", "e2", "e3", "e4"}

\* DELETE FROM events WHERE id = ? on a connection whose foreign-key
\* enforcement is fk. The schema cascades the deletion to the edges naming
\* the event as parent_id; what it does for edges naming it as child_id is
\* left open: they are deleted too (child_cascades) or make the statement fail.
DeleteEvent(d, id, fk, child_cascades) ==
    LET without == [d EXCEPT !.events = {e \in @ : e.id # id}]
        asParent == {p \in d.event_parents : p.parent_id = id}
        asChild == {p \in d.event_parents : p.child_id = id}
    IN IF ~fk THEN [ok |-> TRUE, db |-> without]
       ELSE IF id \notin Ids(d.events) THEN [ok |-> TRUE, db |-> d]
       ELSE IF ~child_cascades /\ asChild # {} THEN [ok |-> FALSE, db |-> d]
       ELSE [ok |-> TRUE,
             db |-> [without EXCEPT !.event_parents =
                        (@ \ asParent) \ (IF child_cascades THEN asChild ELSE {})]]

\* Faulty variant: the connection never executes PRAGMA foreign_keys = ON.
delete_event_no_pragma(id, child_cascades) ==
    /\ Idle
    /\ LET con == OpenConn("delete_event")
           file == connect(db)
           r == DeleteEvent(file, id, con.foreign_keys, child_cascades)
           done == "events" \in file.tables /\ r.ok
       IN /\ db' = IF done THEN r.db ELSE file
          /\ CalledWith("delete_event", id, IF done THEN "ok" ELSE "error", close(con))

\* con.execute("PRAGMA foreign_keys = ON;"); DELETE FROM events WHERE id=?;
\* con.commit()
delete_event(id, child_cascades) ==
    /\ Idle
    /\ LET con == [OpenConn("delete_event") EXCEPT !.foreign_keys = TRUE]
           file == connect(db)
           r == DeleteEvent(file, id, con.foreign_keys, child_cascades)
           done == "events" \in file.tables /\ r.ok
       IN /\ db' = IF done THEN r.db ELSE file
          /\ CalledWith("delete_event", id, IF done THEN "ok" ELSE "error", close(con))

\* run_job called on a store that has its schema and no rows, as
\* test_run_job does after create_db.
run_job_on_initialized ==
    /\ AllTables \subseteq db.tables
    /\ \A t \in AllTables : db[t] = {}
    /\ run_job_load_yaml

NextStore ==
    \/ remove_db
    \/ \E ensure_wal \in BOOLEAN : create_db(ensure_wal)
    \/ truncate_db
    \/ \E n_rows \in 0..Cardinality(MockSessionIds) :
          insert_mock_data_from(n_rows, MockSessionIds, MockEventIds)
    \/ \E id \in MockEventIds, child_cascades \in BOOLEAN :
          delete_event(id, child_cascades)
    \/ run_job_on_initialized
    \/ run_job_connect
    \/ run_job_download
    \/ run_job_validate
    \/ run_job_insert

SpecStore == Init /\ [][NextStore]_vars

----------------------------------------------------------------------------
\* Backup and ingestion, as setup() followed by run_job() drives them: the
\* store is populated by insert_mock_data, backed up, and run_job reads the
\* backup uploaded last.

NextTrip ==
    \/ remove_db
    \/ \E ensure_wal \in BOOLEAN : create_db(ensure_wal)
    \/ \E n_rows \in 0..MaxMock :
          insert_mock_data_from(n_rows, MockSessionIds, EventIds)
    \/ to_storage_account_to(TRUE)
    \/ truncate_db
    \/ run_job_load_yaml
    \/ run_job_connect
    \/ run_job_download_uploaded
    \/ run_job_validate
    \/ run_job_insert

SpecTrip == Init /\ [][NextTrip]_vars

----------------------------------------------------------------------------
\* download_latest_json on every container content.

InitFetch ==
    /\ db = AbsentDb
    /\ pc = "idle"
    /\ snapshot = NoSnapshot
    /\ dbBefore = AbsentDb
    /\ lastCall = NoCall
    /\ lastConn = NoConn
    /\ stages = <<>>
    /\ insertLog = <<>>
    /\ listing \in Listings
    /\ fetch = NoFetch
    /\ PureInit

call_download_latest_json ==
    /\ fetch = NoFetch
    /\ \E fault \in Faults : fetch' = download_latest_json(listing, fault)
    /\ UNCHANGED <<db, pc, snapshot, dbBefore, lastCall, lastConn, stages,
                   insertLog, listing, pureVars, uploaded>>

NextFetch == call_download_latest_json

SpecFetch == InitFetch /\ [][NextFetch]_vars

----------------------------------------------------------------------------
\* parse_container_url on every URL of Urls.

\* str.find: the first position of symbol c in s, 0 when there is none.
Find(s, c) ==
    IF \E i \in DOMAIN s : s[i] = c
    THEN CHOOSE i \in DOMAIN s : s[i] = c /\ \A j \in 1..(i - 1) : s[j] # c
    ELSE 0

From(s, i) == SubSeq(s, i, Len(s))

\* urlparse, as far as parse_container_url reads its result: the scheme is
\* what precedes the first ":" when that is a non-empty run of scheme
\* characters; the netloc follows a leading "//" up to the next "/" or "?";
\* the query follows the first "?" of what is left; the rest is the path.
urlparse(u) ==
    LET colon == Find(u, ":")
        hasScheme == colon > 1 /\ \A j \in 1..(colon - 1) : u[j] \in SchemeWords
        scheme == IF hasScheme THEN SubSeq(u, 1, colon - 1) ELSE <<>>
        rest == IF hasScheme THEN From(u, colon + 1) ELSE u
        hasNetloc == Len(rest) >= 2 /\ rest[1] = "/" /\ rest[2] = "/"
        after == IF hasNetloc THEN From(rest, 3) ELSE rest
        ends == {i \in DOMAIN after : after[i] \in {"/", "?"}}
        delim == IF ends = {} THEN Len(after) + 1
                 ELSE CHOOSE i \in ends : \A j \in ends : i <= j
        netloc == IF hasNetloc THEN SubSeq(after, 1, delim - 1) ELSE <<>>
        tail == IF hasNetloc THEN From(after, delim) ELSE rest
        mark == Find(tail, "?")
    IN [scheme |-> scheme,
        netloc |-> netloc,
        path |-> IF mark = 0 THEN tail ELSE SubSeq(tail, 1, mark - 1),
        query |-> IF mark = 0 THEN <<>> ELSE From(tail, mark + 1)]

\* [p for p in u.path.split('/') if p]: the non-empty runs between slashes.
RECURSIVE SplitParts(_, _)
SplitParts(path, run) ==
    IF path = <<>> THEN (IF run = <<>> THEN <<>> ELSE <<run>>)
    ELSE IF Head(path) = "/"
    THEN (IF run = <<>> THEN <<>> ELSE <<run>>) \o SplitParts(Tail(path), <<>>)
    ELSE SplitParts(Tail(path), Append(run, Head(path)))

ValueError == [outcome |-> "ValueError", account_url |-> <<>>,
               container_name |-> <<>>, sas |-> <<>>]
\* Python's None, as a symbol no URL holds.
None == <<"None">>

\* Faulty variant: the container is taken from the last path segment.
parse_container_url_last_part(container_url) ==
    LET u == urlparse(container_url)
        parts == SplitParts(u.path, <<>>)
    IN IF container_url = <<>> THEN ValueError
       ELSE IF u.scheme = <<>> \/ u.netloc = <<>> THEN ValueError
       ELSE IF parts = <<>> THEN ValueError
       ELSE [outcome |-> "ok",
             account_url |-> u.scheme \o <<":", "/", "/">> \o u.netloc,
             container_name |-> parts[Len(parts)],
             sas |-> IF u.query = <<>> THEN None ELSE u.query]

parse_container_url(container_url) ==
    LET u == urlparse(container_url)
        parts == SplitParts(u.path, <<>>)
    IN IF container_url = <<>> THEN ValueError
       ELSE IF u.scheme = <<>> \/ u.netloc = <<>> THEN ValueError
       ELSE IF parts = <<>> THEN ValueError
       ELSE [outcome |-> "ok",
             account_url |-> u.scheme \o <<":", "/", "/">> \o u.netloc,
             container_name |-> parts[1],
             sas |-> IF u.query = <<>> THEN None ELSE u.query]

InitUrl ==
    /\ StoreInit
    /\ url \in Urls
    /\ parsed = NoParse
    /\ BindInit
    /\ SchedInit
    /\ uploaded = NoUpload

call_parse_container_url ==
    /\ parsed = NoParse
    /\ parsed' = parse_container_url(url)
    /\ UNCHANGED <<storeVars, url, bindVars, schedVars, uploaded>>

NextUrl == call_parse_container_url

SpecUrl == InitUrl /\ [][NextUrl]_vars

----------------------------------------------------------------------------
\* The parameter binding of insert_to_db on every row object.

\* tuple(row.values()): the values in the order of the document.
values(row) == [i \in DOMAIN row.fields |-> row.fields[i][2]]

\* con.execute(insert_statement, parameters): the i-th parameter goes to
\* the column of the i-th placeholder.
execute(table, parameters) ==
    IF Len(parameters) # Len(InsertColumns[table])
    THEN [outcome |-> "ProgrammingError"]
    ELSE [outcome |-> "ok",
          row |-> [c \in Range(InsertColumns[table]) |->
                     parameters[CHOOSE i \in DOMAIN InsertColumns[table] :
                                    InsertColumns[table][i] = c]]]

InitBind ==
    /\ StoreInit
    /\ UrlInit
    /\ SchedInit
    /\ rowObject \in RowObjects
    /\ stored = NotBound
    /\ uploaded = NoUpload

call_execute ==
    /\ stored = NotBound
    /\ stored' = execute(rowObject.table, values(rowObject))
    /\ UNCHANGED <<storeVars, urlVars, rowObject, schedVars, uploaded>>

NextBind == call_execute

SpecBind == InitBind /\ [][NextBind]_vars

----------------------------------------------------------------------------
\* schedule_job and remove_scheduled_job against the task scheduler.

\* str.lower() of a unit word.
lower(word) ==
    CASE word = "Hour" -> "hour"
      [] OTHER -> word

\* re.match(r"(\d+)\s*(minute|hour|day|minutes|hours|days)$", repeat_every,
\* re.IGNORECASE): the groups when the string is a run of digits, blanks
\* and a unit from its first symbol on; $ is the end of the string or the
\* place before a newline that ends it.
RECURSIVE SkipBlanks(_)
SkipBlanks(s) ==
    IF s # <<>> /\ Head(s) \in Whitespace THEN SkipBlanks(Tail(s)) ELSE s

re_match(repeat_every) ==
    IF repeat_every = <<>> \/ Head(repeat_every) \notin Numbers
    THEN [matched |-> FALSE]
    ELSE LET rest == SkipBlanks(Tail(repeat_every))
         IN IF /\ rest # <<>>
               /\ Tail(rest) \in {<<>>, <<"\n">>}
               /\ lower(rest[1]) \in {"minute", "hour", "day",
                                       "minutes", "hours", "days"}
            THEN [matched |-> TRUE, interval |-> Head(repeat_every),
                  unit |-> lower(rest[1])]
            ELSE [matched |-> FALSE]

\* The trigger schedule_job builds: daily for days, else a time trigger
\* repeating every PT<n>H or PT<n>M.
Trigger(m) ==
    IF m.unit \in {"day", "days"}
    THEN [type |-> "TASK_TRIGGER_DAILY", interval |-> m.interval]
    ELSE [type |-> "TASK_TRIGGER_TIME",
          interval |-> IF m.unit \in {"hour", "hours"}
                       THEN <<"PT", m.interval, "H">>
                       ELSE <<"PT", m.interval, "M">>]

\* Faulty variant: the definition is registered beside the one of the name.
RegisterTaskDefinition_create(registered, name, trigger) ==
    registered \cup {[name |-> name, trigger |-> trigger]}

\* root.RegisterTaskDefinition(name, task_def, TASK_CREATE_OR_UPDATE, ...)
RegisterTaskDefinition(registered, name, trigger) ==
    {t \in registered : t.name # name} \cup {[name |-> name, trigger |-> trigger]}

\* schedule_job: the ValueError comes before the scheduler is contacted; the
\* scheduler is the environment and may refuse (no administrator rights).
schedule_job(repeat_every) ==
    LET m == re_match(repeat_every)
        call(outcome, contacted) ==
            [op |-> "schedule_job", outcome |-> outcome, contacted |-> contacted,
             repeat_every |-> repeat_every]
    IN /\ UNCHANGED <<storeVars, urlVars, bindVars, uploaded>>
       /\ IF ~ m.matched
          THEN /\ schedCall' = call("ValueError", FALSE)
               /\ UNCHANGED <<tasks, lastSuccess>>
          ELSE \/ /\ schedCall' = call("ok", TRUE)
                  /\ tasks' = RegisterTaskDefinition(tasks, "run_etl_job", Trigger(m))
                  /\ lastSuccess' = "schedule_job"
               \/ /\ schedCall' = call("com_error", TRUE)
                  /\ UNCHANGED <<tasks, lastSuccess>>

\* remove_scheduled_job: root.DeleteTask("run_etl_job", 0) raises when no
\* task has the name, or when the scheduler refuses.
remove_scheduled_job ==
    LET call(outcome) ==
            [op |-> "remove_scheduled_job", outcome |-> outcome, contacted |-> TRUE,
             repeat_every |-> <<>>]
    IN /\ UNCHANGED <<storeVars, urlVars, bindVars, uploaded>>
       /\ \/ /\ \E t \in tasks : t.name = "run_etl_job"
             /\ schedCall' = call("ok")
             /\ tasks' = {t \in tasks : t.name # "run_etl_job"}
             /\ lastSuccess' = "remove_scheduled_job"
          \/ /\ schedCall' = call("com_error")
             /\ UNCHANGED <<tasks, lastSuccess>>

NextSched ==
    \/ \E repeat_every \in RepeatStrings : schedule_job(repeat_every)
    \/ remove_scheduled_job

SpecSched == Init /\ [][NextSched]_vars

----------------------------------------------------------------------------
\* Vocabulary of the properties.


\* A run_job call has returned or raised.
RunDone == pc = "done" /\ lastCall.op = "run_job"
RunFailed == RunDone /\ lastCall.outcome = "error"
RunSucceeded == RunDone /\ lastCall.outcome = "ok"

\* The run has a staged snapshot.
Staged == lastCall.op = "run_job" /\ snapshot # NoSnapshot

AllStages == <<"load_yaml", "connect", "download", "validate",
               "sessions", "events", "event_parents">>

\* Number of INSERTs into table among the first n executed in this run.
Inserted(table, n) == Cardinality({j \in 1..n : insertLog[j] = table})

\* Lifecycle state of a store.
State(d) ==
    IF ~d.exists THEN "absent"
    ELSE IF ~(AllTables \subseteq d.tables) THEN "blank"
    ELSE IF d.sessions = {} /\ d.events = {} /\ d.event_parents = {} THEN "initialized"
    ELSE "populated"

----------------------------------------------------------------------------
\* C1: the load is atomic across the three tables: when the insertion of a
\* row of any table fails, the store holds after the run exactly the rows it
\* held before the run.
LoadAtomicAcrossTables ==
    (RunFailed /\ lastCall.stage \in AllTables) => Rows(db) = Rows(dbBefore)

\* C2: partial application of a load is never observable: at every point of
\* a run the committed store holds none of the rows this run adds, or every
\* row of the snapshot in all three tables.
NoPartialLoadObservable ==
    Staged =>
        \/ Rows(db) = Rows(dbBefore)
        \/ \A t \in AllTables : Range(snapshot[t]) \subseteq db[t]

\* C3: a snapshot that fails validation never reaches the load: no
\* insert_to_db call is made, no INSERT is executed and the row counts of the
\* three tables are those before the run.
InvalidSnapshotNeverLoaded ==
    (Staged /\ ~snapshot.valid) =>
        /\ insertLog = <<>>
        /\ Range(stages) \cap AllTables = {}
        /\ lastConn.by # "insert_to_db"
        /\ \A t \in AllTables : Cardinality(db[t]) = Cardinality(dbBefore[t])

\* C3 witness: a run that ended in the validate stage on an invalid snapshot
\* whose first session row the store would have accepted.
InvalidSnapshotRejectedReached ==
    /\ RunFailed /\ lastCall.stage = "validate"
    /\ snapshot # NoSnapshot /\ ~snapshot.valid
    /\ Len(snapshot.sessions) > 0
    /\ ExecuteOk(db, "sessions", snapshot.sessions[1], TRUE)

\* C4: every stage error aborts the run at once and commits nothing: the
\* failing stage is the last one executed, a run that reports success ran
\* every stage, and a failed run leaves the rows of the store as they were.
StageErrorAbortsWithoutPartialState ==
    /\ RunFailed =>
          /\ stages[Len(stages)] = lastCall.stage
          /\ Rows(db) = Rows(dbBefore)
    /\ RunSucceeded => stages = AllStages

\* C5: referential integrity holds in every reachable store state: every
\* event's session exists and both endpoints of every edge are events.
ReferentialIntegrity ==
    /\ \A e \in db.events : ForeignKeyOk(db, "events", e)
    /\ \A p \in db.event_parents : ForeignKeyOk(db, "event_parents", p)

\* C6: every connection opened by create_db, insert_to_db, insert_mock_data
\* and truncate_db has foreign-key enforcement switched on.
ForeignKeysOnEveryConnection ==
    lastConn.by \in {"create_db", "insert_to_db", "insert_mock_data", "truncate_db"}
        => lastConn.foreign_keys

\* C7: a dangling reference is rejected at insert time: once the insert of
\* events (event_parents) has run, a snapshot row of that table whose
\* reference names no stored session (event) has made the run fail and is
\* not stored.
DanglingReferenceRejected ==
    \A t \in {"events", "event_parents"} :
        (Staged /\ t \in Range(stages)) =>
            \A row \in Range(snapshot[t]) :
                ~ForeignKeyOk(db, t, row) =>
                    /\ RunFailed
                    /\ row \notin db[t]

\* C8: insertion follows dependency order: in a run of run_job no events row
\* is inserted before every sessions row of the snapshot, and no
\* event_parents row before every events row of the snapshot.
InsertionFollowsDependencyOrder ==
    \A i \in DOMAIN insertLog :
        /\ insertLog[i] = "events" =>
              Inserted("sessions", i - 1) = Len(snapshot.sessions)
        /\ insertLog[i] = "event_parents" =>
              Inserted("events", i - 1) = Len(snapshot.events)

\* C8 witness: a successful run that inserted rows into all three tables.
AllThreeTablesInsertedReached ==
    /\ RunSucceeded
    /\ AllTables \subseteq Range(insertLog)

\* C9: create_db is idempotent: called on an already initialized store it
\* raises no error and leaves the tables, the indices and all rows as they
\* were.
CreateDbIdempotent ==
    (lastCall.op = "create_db" /\ State(dbBefore) \in {"initialized", "populated"}) =>
        /\ lastCall.outcome = "ok"
        /\ db.tables = dbBefore.tables
        /\ db.indices = dbBefore.indices
        /\ Rows(db) = Rows(dbBefore)

\* C9 witness: create_db has returned on a store that already had its schema
\* and rows in every table.
CreateDbOnPopulatedReached ==
    /\ lastCall.op = "create_db"
    /\ dbBefore.tables = AllTables /\ dbBefore.indices = AllIndices
    /\ \A t \in AllTables : dbBefore[t] # {}

\* C10: the store follows the lifecycle absent -> initialized -> populated
\* -> initialized: create_db takes absent to initialized, a successful load
\* takes initialized to populated, truncate_db takes populated to
\* initialized, remove_db takes every state to absent, and these four
\* operations produce no other change between the three states.
LifecycleStateMachine ==
    LET op == lastCall.op
        from == State(dbBefore)
        to == State(db)
        ok == lastCall.outcome = "ok"
        Three == {"absent", "initialized", "populated"}
    IN (lastCall.outcome \in {"ok", "error"}
            /\ op \in {"create_db", "run_job", "truncate_db", "remove_db"}) =>
        /\ (op = "create_db" /\ from = "absent") => to = "initialized"
        /\ (op = "run_job" /\ ok /\ from = "initialized") => to = "populated"
        /\ (op = "truncate_db" /\ from = "populated") => to = "initialized"
        /\ op = "remove_db" => to = "absent"
        /\ (from # to /\ from \in Three /\ to \in Three) =>
              \/ op = "create_db" /\ from = "absent" /\ to = "initialized"
              \/ op = "run_job" /\ ok /\ from = "initialized" /\ to = "populated"
              \/ op = "truncate_db" /\ from = "populated" /\ to = "initialized"
              \/ op = "remove_db" /\ to = "absent"

----------------------------------------------------------------------------
\* C11: truncate_db on a store that has its schema leaves sessions, events
\* and event_parents without rows, while the three tables and both indices
\* still exist.
TruncateLeavesEmptySchema ==
    (lastCall.op = "truncate_db" /\ State(dbBefore) \in {"initialized", "populated"}) =>
        /\ lastCall.outcome = "ok"
        /\ \A t \in AllTables : db[t] = {}
        /\ db.tables = AllTables
        /\ db.indices = AllIndices

\* C11 witness: truncate_db has returned on a store that held rows in all
\* three tables.
TruncatePopulatedReached ==
    /\ lastCall.op = "truncate_db"
    /\ \A t \in AllTables : dbBefore[t] # {}
    /\ State(db) = "initialized"

\* C12: deleting an event that is the parent_id of event_parents rows, on a
\* connection with enforcement on, cascades: afterwards no edge has that
\* parent_id, every edge with another parent_id and child_id is still
\* there, and no other events row (and no session) is removed.
DeleteParentCascades ==
    (lastCall.op = "delete_event" /\ lastCall.outcome = "ok"
        /\ lastCall.arg \in Ids(dbBefore.events)) =>
        /\ lastCall.arg \notin Ids(db.events)
        /\ \A p \in db.event_parents : p.parent_id # lastCall.arg
        /\ \A p \in dbBefore.event_parents :
              (p.parent_id # lastCall.arg /\ p.child_id # lastCall.arg) =>
                  p \in db.event_parents
        /\ \A e \in dbBefore.events : e.id # lastCall.arg => e \in db.events
        /\ db.sessions = dbBefore.sessions

\* C12 witness: the deleted event was the parent of an edge, and an edge
\* between two other events was stored as well.
DeleteParentWithOtherEdgeReached ==
    /\ lastCall.op = "delete_event" /\ lastCall.outcome = "ok"
    /\ \E p \in dbBefore.event_parents : p.parent_id = lastCall.arg
    /\ \E p \in db.event_parents :
          p.parent_id # lastCall.arg /\ p.child_id # lastCall.arg

\* C13: when at least one blob name starts with "backup_", the fetch
\* selects a blob of the listing whose name has the prefix and whose
\* creation timestamp no other such blob exceeds; it fails with the error
\* of the missing blob only when no name has the prefix.
FindLatestSelectsNewestBackup ==
    /\ fetch.outcome = "ok" =>
          /\ fetch.selected \in Range(listing)
          /\ name_starts_with(fetch.selected.name, "backup_")
          /\ \A b \in Range(listing) :
                name_starts_with(b.name, "backup_") =>
                    b.creation_time <= fetch.selected.creation_time
    /\ fetch.error = "AttributeError" =>
          \A b \in Range(listing) : ~ name_starts_with(b.name, "backup_")

\* C13 witness: backup_20240101T000000 and backup_20240102T000000 are
\* listed, created in the order of their names, beside a newer blob
\* without the prefix, and backup_20240102T000000 was selected.
NewerOfTwoBackupsReached ==
    /\ fetch.outcome = "ok"
    /\ [name |-> "backup_20240101T000000.json", creation_time |-> 1] \in Range(listing)
    /\ [name |-> "backup_20240102T000000.json", creation_time |-> 2] \in Range(listing)
    /\ \E b \in Range(listing) : b.name \in OtherNames /\ b.creation_time = 2
    /\ fetch.selected.name = "backup_20240102T000000.json"

\* C14: when no blob name starts with the prefix and the listing itself
\* succeeded, the fetch fails with a NotFoundError, attempts no download
\* and creates no staging file.
NoMatchRaisesNotFoundError ==
    (/\ fetch.outcome # "none"
     /\ fetch.error # "ServiceError"
     /\ \A b \in Range(listing) : ~ name_starts_with(b.name, "backup_")) =>
        /\ fetch.outcome = "error"
        /\ fetch.error = "NotFoundError"
        /\ ~ fetch.attempted
        /\ fetch.staging = "none"

\* C15: among blobs with the same greatest creation timestamp the selection
\* does not depend on the order of the listing: every enumeration of the
\* same blobs selects the blob this fetch selected.
TieBreakIndependentOfListingOrder ==
    fetch.outcome = "ok" =>
        \A l \in Listings :
            Range(l) = Range(listing) => FindLatest(l) = fetch.selected

\* C16: a fetch that fails, while listing, opening the download or reading
\* the content, leaves no staging file.
FailedFetchLeavesNoStagingFile ==
    fetch.outcome = "error" => fetch.staging = "none"

\* C17: when run_job has ended, by success or by a failure in any stage,
\* the staging file of the run no longer exists.
StagingFileDeletedOnExit ==
    RunDone => fetch.staging = "none"

\* C18: the connection opened by insert_to_db, create_db, truncate_db,
\* insert_mock_data or to_storage_account is closed when the operation has
\* ended, by return or by exception, a failing dump of the tables in
\* to_storage_account included.
ConnectionClosedOnEveryExit ==
    lastConn.by \in {"insert_to_db", "create_db", "truncate_db",
                     "insert_mock_data", "to_storage_account"}
        => lastConn.closed

\* C19: validation is pure: when the validate stage of a run has ended, no
\* store connection has been opened, the store is what it was before the
\* run, and the outcome is the one the staged content determines: success
\* for content that satisfies the schema, the violation otherwise.
ValidateIsPure ==
    (lastCall.op = "run_job" /\ stages # <<>> /\ stages[Len(stages)] = "validate") =>
        /\ lastConn = NoConn
        /\ db = dbBefore
        /\ validate_json_string(snapshot) =>
              pc = "validated" /\ lastCall.outcome = "running"
        /\ ~ validate_json_string(snapshot) =>
              RunFailed /\ lastCall.stage = "validate"

\* C19 witness: a snapshot with rows has passed validation on a store that
\* holds rows.
ValidatedOnPopulatedReached ==
    /\ pc = "validated"
    /\ stages[Len(stages)] = "validate"
    /\ db.sessions # {}
    /\ snapshot.events # <<>>

\* C20: row counts after population are exact: insert_mock_data(N) on an
\* initialized empty store leaves N sessions, 2N events and N edges, and a
\* successful load into an initialized empty store leaves every table with
\* as many rows as the snapshot lists for it.
RowCountsExact ==
    /\ (lastCall.op = "insert_mock_data" /\ lastCall.outcome = "ok"
            /\ State(dbBefore) = "initialized") =>
          /\ Cardinality(db.sessions) = lastCall.arg
          /\ Cardinality(db.events) = 2 * lastCall.arg
          /\ Cardinality(db.event_parents) = lastCall.arg
    /\ (RunSucceeded /\ State(dbBefore) = "initialized") =>
          \A t \in AllTables : Cardinality(db[t]) = Len(snapshot[t])

\* C20 witness: insert_mock_data has populated an initialized empty store
\* with two sessions.
MockTwoSessionsReached ==
    /\ lastCall.op = "insert_mock_data" /\ lastCall.outcome = "ok"
    /\ lastCall.arg = 2
    /\ State(dbBefore) = "initialized"
    /\ Cardinality(db.events) = 4

\* A URL has a scheme, a host and a path when it reads scheme "://" host
\* path, optionally followed by "?" and a query: the scheme ends at i, the
\* host at j, the path at k.
IsRun(s, symbols) == s # <<>> /\ \A n \in DOMAIN s : s[n] \in symbols
HasShape(u, i, j, k) ==
    /\ IsRun(SubSeq(u, 1, i), SchemeWords)
    /\ i + 3 <= Len(u) /\ u[i + 1] = ":" /\ u[i + 2] = "/" /\ u[i + 3] = "/"
    /\ IsRun(SubSeq(u, i + 4, j), Words)
    /\ j <= k /\ k <= Len(u)
    /\ \A n \in (j + 1)..k : u[n] \in Words \cup {"/"}
    /\ k = j \/ u[j + 1] = "/"
    /\ k = Len(u) \/ u[k + 1] = "?"

\* The non-empty path segments: runs of words between slashes or path ends.
Segments(path) ==
    {<<a, b>> \in (DOMAIN path) \X (DOMAIN path) :
        /\ IsRun(SubSeq(path, a, b), Words)
        /\ a = 1 \/ path[a - 1] = "/"
        /\ b = Len(path) \/ path[b + 1] = "/"}

\* C21: a URL with a non-empty scheme, host and at least one non-empty path
\* segment parses to endpoint scheme://host, container the first non-empty
\* path segment and credential the query, none when the query is empty;
\* every other URL, the empty one included, is rejected with a ValueError.
ParseContainerUrlContract ==
    parsed # NoParse =>
        /\ \A i, j, k \in 0..Len(url) :
              HasShape(url, i, j, k) =>
                  LET path == SubSeq(url, j + 1, k)
                      query == From(url, k + 2)
                      first == CHOOSE s \in Segments(path) :
                                  \A t \in Segments(path) : s[1] <= t[1]
                  IN IF Segments(path) = {}
                     THEN parsed.outcome = "ValueError"
                     ELSE /\ parsed.outcome = "ok"
                          /\ parsed.account_url = SubSeq(url, 1, j)
                          /\ parsed.container_name = SubSeq(path, first[1], first[2])
                          /\ parsed.sas = IF query = <<>> THEN None ELSE query
        /\ (~ \E i, j, k \in 0..Len(url) : HasShape(url, i, j, k)) =>
              parsed.outcome = "ValueError"

\* C21 witness: https://acct.example/mycontainer?sig=abc has been parsed to
\* https://acct.example, mycontainer and sig=abc.
ExampleUrlParsedReached ==
    /\ url = <<"https", ":", "/", "/", "acct.example", "/", "mycontainer",
               "?", "sig=abc">>
    /\ parsed = [outcome |-> "ok",
                 account_url |-> <<"https", ":", "/", "/", "acct.example">>,
                 container_name |-> <<"mycontainer">>,
                 sas |-> <<"sig=abc">>]

\* C22: create_db with ensure_wal=True leaves the store in journal mode
\* wal, a store in journal mode wal is still in it after a later create_db,
\* run_job or truncate_db, and a connection to such a store reports a
\* synchronous mode of 1 or 2.
WalModePersists ==
    [][/\ (lastCall'.op = "create_db" /\ lastCall'.arg) => db'.journal_mode = "wal"
       /\ (db.journal_mode = "wal"
              /\ lastCall'.op \in {"create_db", "run_job", "truncate_db"})
            => db'.journal_mode = "wal"
       /\ db'.journal_mode = "wal" =>
            lastConn'.synchronous \in {SynchronousNormal, SynchronousFull}]_vars

\* C22 witness: a create_db without ensure_wal has run on a store that an
\* earlier create_db had put in journal mode wal, and the store holds rows.
WalKeptByLaterCreateReached ==
    /\ lastCall.op = "create_db" /\ ~ lastCall.arg
    /\ dbBefore.journal_mode = "wal" /\ db.journal_mode = "wal"
    /\ db.sessions # {}

\* C23: remove_db returns without error and leaves the store absent; on
\* an absent store it changes nothing, and a remove_db right after a
\* remove_db changes nothing either.
RemoveDbIdempotent ==
    [][lastCall'.op = "remove_db" =>
          /\ lastCall'.outcome = "ok"
          /\ db' = AbsentDb
          /\ ~ db.exists => db' = db
          /\ lastCall.op = "remove_db" => db' = db]_vars

\* C23 witness: remove_db has removed a store that held rows.
RemovedPopulatedReached ==
    /\ lastCall.op = "remove_db" /\ lastCall.outcome = "ok"
    /\ State(dbBefore) = "populated"
    /\ ~ db.exists

\* Every reference of store d has its target.
RefIntegrityOf(d) ==
    /\ \A e \in d.events : ForeignKeyOk(d, "events", e)
    /\ \A p \in d.event_parents : ForeignKeyOk(d, "event_parents", p)

\* No row of store d refers to a row of the table.
Unreferenced(d, table) ==
    CASE table = "sessions" -> d.events = {}
      [] table = "events" -> d.event_parents = {}
      [] table = "event_parents" -> TRUE

\* C24: on a store with its schema whose references all have their targets,
\* truncate_db succeeds and clears event_parents, then events, then
\* sessions, and each DELETE finds no row left that refers to the table it
\* clears, so that no statement needs a cascade or breaks a reference.
TruncateInReverseDependencyOrder ==
    (lastCall.op = "truncate_db" /\ AllTables \subseteq dbBefore.tables
        /\ RefIntegrityOf(dbBefore)) =>
        /\ lastCall.outcome = "ok"
        /\ lastCall.arg = <<"event_parents", "events", "sessions">>
        /\ \A k \in DOMAIN lastCall.arg :
              Unreferenced(DeleteTables(dbBefore, SubSeq(lastCall.arg, 1, k - 1)),
                           lastCall.arg[k])

\* C24 witness: truncate_db has cleared a store in which events referred to
\* a session and an edge to events.
TruncateReferencedRowsReached ==
    /\ lastCall.op = "truncate_db" /\ lastCall.outcome = "ok"
    /\ RefIntegrityOf(dbBefore)
    /\ dbBefore.event_parents # {} /\ dbBefore.events # {} /\ dbBefore.sessions # {}
    /\ Rows(db) = Rows(AbsentDb)

\* C25: one insert_to_db call is all-or-nothing for its table: when a row
\* fails, the store holds the rows it held before the call, the rows
\* executed earlier in the call included in the rollback; when none fails,
\* the table holds its former rows and all rows of the snapshot's table,
\* and the other tables are as before.
InsertToDbAllOrNothing ==
    [][\A t \in AllTables :
          (lastCall.op = "run_job" /\ stages' = Append(stages, t)) =>
              IF lastCall'.outcome = "error"
              THEN Rows(db') = Rows(db)
              ELSE /\ db'[t] = db[t] \cup Range(snapshot[t])
                   /\ \A o \in AllTables \ {t} : db'[o] = db[o]]_vars

\* C25 witness: an insert_to_db call has failed after it had executed a row
\* of its table.
RowRolledBackReached ==
    /\ RunFailed
    /\ lastCall.stage \in AllTables
    /\ \E j \in DOMAIN insertLog : insertLog[j] = lastCall.stage

\* C26: the row stored for a row object has in every column the value the
\* object gives for the field of that name, whatever the order of its
\* fields in the document.
FieldsStoredByName ==
    stored # NotBound =>
        /\ stored.outcome = "ok"
        /\ \A i \in DOMAIN rowObject.fields :
              stored.row[rowObject.fields[i][1]] = rowObject.fields[i][2]

\* C27: a backup holds exactly the rows of the store it was dumped from,
\* and a run_job that fetched the backup uploaded last into a store with
\* its schema and no rows succeeds and leaves the three tables with exactly
\* those rows.
BackupRoundTrip ==
    /\ uploaded # NoUpload =>
          \A t \in AllTables :
              /\ Range(uploaded.snapshot[t]) = uploaded.rows[t]
              /\ Len(uploaded.snapshot[t]) = Cardinality(uploaded.rows[t])
    /\ (/\ RunDone /\ fetch.outcome = "ok"
        /\ uploaded # NoUpload
        /\ State(dbBefore) = "initialized") =>
          /\ RunSucceeded
          /\ Rows(db) = uploaded.rows

\* C27 witness: after a backup of a store with rows in all three tables and
\* a truncation, run_job has restored the rows.
RoundTripRestoredReached ==
    /\ RunSucceeded
    /\ uploaded # NoUpload
    /\ State(dbBefore) = "initialized"
    /\ \A t \in AllTables : db[t] # {}
    /\ Rows(db) = uploaded.rows

\* C28: in every store state no two sessions rows and no two events rows
\* share an id and no two event_parents rows share (child_id, parent_id);
\* and a run_job whose non-empty snapshot the store already holds, as after
\* a first successful run of it, fails and leaves the three tables as they
\* were.
UniqueIdsAndRepeatedLoadRejected ==
    /\ \A r1, r2 \in db.sessions : r1.id = r2.id => r1 = r2
    /\ \A r1, r2 \in db.events : r1.id = r2.id => r1 = r2
    /\ \A r1, r2 \in db.event_parents :
          (r1.child_id = r2.child_id /\ r1.parent_id = r2.parent_id) => r1 = r2
    /\ (/\ RunDone /\ fetch.outcome = "ok"
        /\ validate_json_string(snapshot)
        /\ \E t \in AllTables : snapshot[t] # <<>>
        /\ \A t \in AllTables : Range(snapshot[t]) \subseteq dbBefore[t]) =>
          /\ RunFailed
          /\ Rows(db) = Rows(dbBefore)

\* C28 witness: a run whose snapshot, with rows for all three tables, the
\* store already held has failed at its first insert and changed no table.
RepeatedLoadRejectedReached ==
    /\ RunFailed /\ lastCall.stage = "sessions"
    /\ \A t \in AllTables :
          snapshot[t] # <<>> /\ Range(snapshot[t]) \subseteq dbBefore[t]
    /\ Rows(db) = Rows(dbBefore)

\* repeat_every is written '<number> minute(s)|hour(s)|day(s)': a number,
\* one blank and one of the six words.
IsNumberBlankUnit(s) ==
    /\ Len(s) = 3
    /\ s[1] \in Numbers
    /\ s[2] = " "
    /\ s[3] \in {"minute", "minutes", "hour", "hours", "day", "days"}

\* repeat_every is a number, any whitespace, one of the six words in any
\* letter case and at most one newline after it.
IsNumberUnitLoosely(s) ==
    \E k \in 2..Len(s) :
        /\ s[1] \in Numbers
        /\ \A i \in 2..(k - 1) : s[i] \in Whitespace
        /\ s[k] \in {"minute", "minutes", "hour", "hours", "day", "days", "Hour"}
        /\ Len(s) = k \/ (Len(s) = k + 1 /\ s[k + 1] = "\n")

\* A step after which at most one task is named run_etl_job, the task is
\* registered exactly when the last call that succeeded was schedule_job, and
\* a schedule_job call whose repeat_every is not Accepted has raised
\* ValueError without contacting the scheduler or changing the registration.
CreateOrUpdateStep(Accepted(_)) ==
    /\ Cardinality({t \in tasks' : t.name = "run_etl_job"}) <= 1
    /\ (\E t \in tasks' : t.name = "run_etl_job") <=> lastSuccess' = "schedule_job"
    /\ (schedCall'.op = "schedule_job" /\ ~ Accepted(schedCall'.repeat_every)) =>
          /\ schedCall'.outcome = "ValueError"
          /\ ~ schedCall'.contacted
          /\ tasks' = tasks

====
